---------------------------- MODULE Spec2Model ----------------------------
(***************************************************************************)
(* The administrative HTTP interface of udpt (src/src/webserver.rs): the   *)
(* token middleware, the route table, the list / info / action handlers    *)
(* and the calls they make on the torrent tracker.                         *)
(*                                                                         *)
(* Text is a sequence of characters, each character a one-letter string;   *)
(* the one non-ASCII character used, ARABIC-INDIC DIGIT THREE, is written  *)
(* "U+0663".  An Option is a sequence of length 0 (None) or 1 (Some).      *)
(***************************************************************************)
EXTENDS Integers, Sequences, FiniteSets, TLC

VARIABLES
    db,      \* the tracker's database: entries in stored (iteration) order
    req,     \* the request handled last
    handler, \* the handler the router dispatched it to
    local,   \* that handler's locals (request extension, parsed parameters)
    calls,   \* the tracker calls that handler made, in order
    resp,    \* the response as it left the response hook
    flight   \* per worker thread: its application state and the request
             \* it is in the middle of serving

vars == <<db, req, handler, local, calls, resp, flight>>

None == << >>

Some(v) == <<v>>

is_none(o) == Len(o) = 0

is_some(o) == Len(o) = 1

unwrap(o) == o[1]

Rep(c, n) == [i \in 1..n |-> c]

Min(a, b) == IF a < b THEN a ELSE b

(***************************************************************************)
(* Widths and lengths of the program.                                      *)
(***************************************************************************)
\* A u32 is written as two 16-bit limbs, <<high, low>>.
Limb == 2 ^ 16

U32(n) == <<(n \div Limb) % Limb, n % Limb>>

u32_gt(a, b) == a[1] > b[1] \/ (a[1] = b[1] /\ a[2] > b[2])

\* `n as usize >= len`, for a u32 n and a length below 2^16.
usize_ge(n, len) == n[1] > 0 \/ n[2] >= len

INFO_HASH_LEN == 20

HEX_LEN == 40

MAX_LIMIT == 4096

DEFAULT_LIMIT == 1000

(***************************************************************************)
(* Characters and bytes.                                                   *)
(***************************************************************************)
AsciiDigits == {"0", "1", "2", "3", "4", "5", "6", "7", "8", "9"}

LowerHex == {"a", "b", "c", "d", "e", "f"}

UpperHex == {"A", "B", "C", "D", "E", "F"}

UnicodeDigit == "U+0663"

DigitVal(c) ==
    CASE c = "0" -> 0 [] c = "1" -> 1 [] c = "2" -> 2 [] c = "3" -> 3
      [] c = "4" -> 4 [] c = "5" -> 5 [] c = "6" -> 6 [] c = "7" -> 7
      [] c = "8" -> 8 [] c = "9" -> 9

\* The value hex2bin gives one input byte, or -1 where it returns InvalidInput.
HexVal(c) ==
    CASE c \in AsciiDigits -> DigitVal(c)
      [] c \in {"a", "A"} -> 10 [] c \in {"b", "B"} -> 11
      [] c \in {"c", "C"} -> 12 [] c \in {"d", "D"} -> 13
      [] c \in {"e", "E"} -> 14 [] c \in {"f", "F"} -> 15
      [] OTHER -> -1

\* binascii's table of output digits: lowercase.
HexChar(n) ==
    <<"0", "1", "2", "3", "4", "5", "6", "7",
      "8", "9", "a", "b", "c", "d", "e", "f">>[n + 1]

\* str::as_bytes: the UTF-8 bytes of a text.  An ASCII character is one byte,
\* written as the character; U+0663 is the two bytes D9 A3.
RECURSIVE as_bytes(_)
as_bytes(s) ==
    IF s = << >> THEN << >>
    ELSE (IF Head(s) = UnicodeDigit THEN <<"0xD9", "0xA3">> ELSE <<Head(s)>>)
         \o as_bytes(Tail(s))

(***************************************************************************)
(* binascii::hex2bin(input, output): Err on an odd input length, on an     *)
(* output shorter than half the input, and at the first byte that is no    *)
(* hexadecimal digit; the blocks before that byte are already written.     *)
(***************************************************************************)
hex2bin(input, output) ==
    LET n == Len(input) \div 2
        BadBlocks == {b \in 1..n : HexVal(input[2 * b - 1]) < 0
                                   \/ HexVal(input[2 * b]) < 0}
        Written(upto) ==
            [k \in 1..Len(output) |->
                IF k <= upto
                THEN (16 * HexVal(input[2 * k - 1]) + HexVal(input[2 * k])) % 256
                ELSE output[k]]
    IN  IF Len(input) % 2 # 0 THEN [ok |-> FALSE, out |-> output]
        ELSE IF n > Len(output) THEN [ok |-> FALSE, out |-> output]
        ELSE IF BadBlocks # {}
             THEN [ok |-> FALSE,
                   out |-> Written((CHOOSE b \in BadBlocks :
                                       \A c \in BadBlocks : b <= c) - 1)]
             ELSE [ok |-> TRUE, out |-> Written(n)]

\* bin2hex with the low digit of each byte written before the high one.
bin2hex_low_digit_first(input, output) ==
    IF Len(output) < 2 * Len(input) THEN [ok |-> FALSE, out |-> output]
    ELSE [ok |-> TRUE,
          out |-> [k \in 1..Len(output) |->
                     IF k <= 2 * Len(input)
                     THEN (IF k % 2 = 1
                           THEN HexChar(input[(k + 1) \div 2] % 16)
                           ELSE HexChar(input[k \div 2] \div 16))
                     ELSE output[k]]]

(***************************************************************************)
(* binascii::bin2hex(input, output): two lowercase digits per byte; Err,   *)
(* with nothing written, on an output shorter than twice the input.        *)
(***************************************************************************)
bin2hex(input, output) ==
    IF Len(output) < 2 * Len(input) THEN [ok |-> FALSE, out |-> output]
    ELSE [ok |-> TRUE,
          out |-> [k \in 1..Len(output) |->
                     IF k <= 2 * Len(input)
                     THEN (IF k % 2 = 1
                           THEN HexChar(input[(k + 1) \div 2] \div 16)
                           ELSE HexChar(input[k \div 2] % 16))
                     ELSE output[k]]]

(***************************************************************************)
(* u32::from_str: an optional "+", then one or more ASCII digits, the      *)
(* value accumulated with checked arithmetic (Err past u32::MAX).          *)
(***************************************************************************)
RECURSIVE accumulate_digits(_, _)
accumulate_digits(digits, acc) ==
    IF digits = << >> THEN Some(acc)
    ELSE IF Head(digits) \notin AsciiDigits THEN None
    ELSE LET low == acc[2] * 10 + DigitVal(Head(digits))
             high == acc[1] * 10 + low \div Limb
         IN  IF high >= Limb THEN None
             ELSE accumulate_digits(Tail(digits), <<high, low % Limb>>)

u32_from_str(s) ==
    IF s = << >> THEN None
    ELSE LET digits == IF Head(s) = "+" THEN Tail(s) ELSE s
         IN  IF digits = << >> THEN None ELSE accumulate_digits(digits, U32(0))

(***************************************************************************)
(* The torrent tracker (crate module `tracker`, used through               *)
(* app_state.tracker).  An entry is [info_hash, is_flagged, stats], stats   *)
(* the triple <<seeders, completed, leechers>>; the database keeps its     *)
(* entries in the order its iteration yields them, one per info_hash.      *)
(***************************************************************************)
NewEntry(info_hash) ==
    [info_hash |-> info_hash, is_flagged |-> FALSE, stats |-> <<0, 0, 0>>]

IndexOf(d, info_hash) ==
    IF \E i \in 1..Len(d) : d[i].info_hash = info_hash
    THEN Some(CHOOSE i \in 1..Len(d) : d[i].info_hash = info_hash)
    ELSE None

\* get_database().len()
tracker_len(d) == Len(d)

\* get_database().iter(): the info hashes with their entries, in stored order.
tracker_iter(d) == d

\* get_database().get(&info_hash)
tracker_get(d, info_hash) ==
    LET i == IndexOf(d, info_hash)
    IN  IF is_none(i) THEN None ELSE Some(d[unwrap(i)])

entry_is_flagged(entry) == entry.is_flagged

entry_get_stats(entry) == entry.stats

\* set_torrent_flag(&info_hash, flag): sets the flag of an entry that exists
\* and reports whether it did.
set_torrent_flag(d, info_hash, flag) ==
    LET i == IndexOf(d, info_hash)
    IN  IF is_none(i) THEN [db |-> d, ok |-> FALSE]
        ELSE [db |-> [d EXCEPT ![unwrap(i)].is_flagged = flag], ok |-> TRUE]

\* add_torrent(&info_hash): registers a brand-new info hash, at the place
\* `slot` the tracker's storage gives it; Err when it is already there.
add_torrent(d, info_hash, slot) ==
    IF is_some(IndexOf(d, info_hash)) THEN [db |-> d, ok |-> FALSE]
    ELSE LET at == Min(slot, Len(d) + 1)
         IN  [db |-> SubSeq(d, 1, at - 1) \o <<NewEntry(info_hash)>>
                     \o SubSeq(d, at, Len(d)),
              ok |-> TRUE]

\* remove_torrent(&info_hash, force): Err when there is no such entry, or
\* when it still has peers and the removal is not forced.
remove_torrent(d, info_hash, force) ==
    LET i == IndexOf(d, info_hash)
    IN  IF is_none(i) THEN [db |-> d, ok |-> FALSE]
        ELSE IF ~force /\ d[unwrap(i)].stats[1] + d[unwrap(i)].stats[3] > 0
             THEN [db |-> d, ok |-> FALSE]
             ELSE [db |-> SubSeq(d, 1, unwrap(i) - 1)
                          \o SubSeq(d, unwrap(i) + 1, Len(d)),
                   ok |-> TRUE]

\* One tracker call, as the handler made it.
SetFlagCall(info_hash, flag, ok) ==
    [op |-> "set_torrent_flag", info_hash |-> info_hash, arg |-> flag, ok |-> ok]

AddCall(info_hash, ok) ==
    [op |-> "add_torrent", info_hash |-> info_hash, arg |-> FALSE, ok |-> ok]

RemoveCall(info_hash, force, ok) ==
    [op |-> "remove_torrent", info_hash |-> info_hash, arg |-> force, ok |-> ok]

ReadCall(op) ==
    [op |-> op, info_hash |-> << >>, arg |-> FALSE, ok |-> TRUE]

(***************************************************************************)
(* Responses.                                                              *)
(***************************************************************************)
OK == 200

BAD_REQUEST == 400

UNAUTHORIZED == 401

NOT_FOUND == 404

INTERNAL_SERVER_ERROR == 500

CARGO_PKG_VERSION == "<version>"

SERVER == <<"udpt/", CARGO_PKG_VERSION>>

RootHtml ==
    "Powered by <a href=https://github.com/naim94a/udpt>https://github.com/naim94a/udpt</a>"

\* http_responses::APIResponse, as serde serializes its variants.
ApiError(message) == [type |-> "error", message |-> message]

ApiTorrentList(list) == [type |-> "torrent_list", list |-> list]

ApiTorrentInfo(info) == [type |-> "torrent_info", info |-> info]

JsonBody(api) == [kind |-> "json", api |-> api]

RawBody(text) == [kind |-> "raw", text |-> text]

\* HttpResponse::build(status).json(api)
JsonResponse(status, api) ==
    [status |-> status, content_type |-> "application/json",
     body |-> JsonBody(api), server |-> None]

\* HttpResponse::build(status).body("")
EmptyResponse(status) ==
    [status |-> status, content_type |-> "", body |-> RawBody(""),
     server |-> None]

\* infohash_as_str: each info hash written as the 40 characters bin2hex
\* leaves in output_str.
infohash_as_str(field) ==
    [k \in 1..Len(field) |-> bin2hex(field[k], Rep("0", HEX_LEN)).out]

\* What a handler hands back: its response, the database after its tracker
\* calls, those calls, and its locals.
Outcome(response, d, made, locals) ==
    [resp |-> response, db |-> d, calls |-> made, local |-> locals]

NoLocals == [req_offset |-> None, req_limit |-> None, info_hash |-> None]

(***************************************************************************)
(* Application state and the middleware.                                   *)
(***************************************************************************)
\* access_tokens with the token bound to itself instead of the username.
access_tokens_token_as_user == [token \in {"h311o"} |-> "h311o"]

\* UdptState::new: k=token, v=username.
access_tokens == [token \in {"h311o"} |-> "naim"]

\* MiddlewareStart with the lookup in access_tokens left out: any token
\* names a user.
MiddlewareStart_any_token(r) ==
    IF is_some(r.token)
    THEN [current_user |-> Some(unwrap(r.token))]
    ELSE [current_user |-> None]

\* UdptMiddleware::start: the UdptRequestState put into the request's
\* extensions.
MiddlewareStart(r) ==
    IF is_some(r.token) /\ unwrap(r.token) \in DOMAIN access_tokens
    THEN [current_user |-> Some(access_tokens[unwrap(r.token)])]
    ELSE [current_user |-> None]

\* UdptRequestState::get_user: exts is the extension, if there is one.
get_user(exts) ==
    IF is_none(exts) THEN None ELSE unwrap(exts).current_user

\* MiddlewareResponse that sets the header only when the response has none.
MiddlewareResponse_keeps_header(response) ==
    IF is_none(response.server)
    THEN [response EXCEPT !.server = Some(SERVER)]
    ELSE response

\* UdptMiddleware::response
MiddlewareResponse(response) ==
    [response EXCEPT !.server = Some(SERVER)]

(***************************************************************************)
(* Routing (the App built in WebServer::new).                              *)
(***************************************************************************)
\* The character class [\dA-Fa-f] of the regex crate: \d is any Unicode
\* decimal digit.
InHashClass(c) ==
    c \in AsciiDigits \cup {UnicodeDigit} \cup LowerHex \cup UpperHex

ListPath == <<"/", "t">>

RootPath == <<"/">>

ScopePrefix == <<"/", "t", "/">>

\* The info_hash segment the scope pattern captures from a path, if the
\* path is the scope's resource "".
scope_match(path) ==
    LET n == Len(ScopePrefix)
        segment == SubSeq(path, n + 1, Len(path))
    IN  IF /\ Len(path) = n + HEX_LEN
           /\ SubSeq(path, 1, n) = ScopePrefix
           /\ \A k \in 1..HEX_LEN : InHashClass(segment[k])
        THEN Some(segment)
        ELSE None

\* The handler a request is dispatched to, "none" when no route takes it.
Route(r) ==
    IF r.path = ListPath THEN "view_torrent_list"
    ELSE IF is_some(scope_match(r.path))
         THEN (IF r.method = "GET" THEN "view_torrent_stats"
               ELSE IF r.method = "POST" THEN "torrent_action"
               ELSE "none")
    ELSE IF r.path = RootPath /\ r.method = "GET" THEN "view_root"
    ELSE "none"

\* actix_web::Path::<String>::extract: the captured info_hash segment.
path_extract(r) == scope_match(r.path)

(***************************************************************************)
(* The handlers.                                                           *)
(***************************************************************************)
\* view_root with the check of the other handlers in front of it.
view_root_checks_user(r, exts, d) ==
    IF is_none(get_user(exts))
    THEN Outcome(JsonResponse(UNAUTHORIZED, ApiError("access_denied")),
                 d, << >>, NoLocals)
    ELSE Outcome([status |-> OK, content_type |-> "text/html",
                  body |-> RawBody(RootHtml), server |-> None],
                 d, << >>, NoLocals)

view_root(r, exts, d) ==
    Outcome([status |-> OK, content_type |-> "text/html",
             body |-> RawBody(RootHtml), server |-> None],
            d, << >>, NoLocals)

\* The offset and limit parameters: 0 when absent or not a u32.
query_u32(param) ==
    IF is_none(param) THEN U32(0)
    ELSE LET parsed == u32_from_str(unwrap(param))
         IN  IF is_some(parsed) THEN unwrap(parsed) ELSE U32(0)

\* clamp_limit without the default for 0.
clamp_limit_no_default(req_limit) ==
    IF u32_gt(req_limit, U32(MAX_LIMIT)) THEN U32(MAX_LIMIT) ELSE req_limit

clamp_limit(req_limit) ==
    IF u32_gt(req_limit, U32(MAX_LIMIT)) THEN U32(MAX_LIMIT)
    ELSE IF req_limit = U32(0) THEN U32(DEFAULT_LIMIT)
    ELSE req_limit

\* skip with an offset past the end clamped to the last item.
skip_clamped(s, n) ==
    IF usize_ge(n, Len(s))
    THEN (IF s = << >> THEN << >> ELSE <<s[Len(s)]>>)
    ELSE SubSeq(s, n[2] + 1, Len(s))

\* Iterator::skip and Iterator::take, of `n as usize` items
skip(s, n) == IF usize_ge(n, Len(s)) THEN << >> ELSE SubSeq(s, n[2] + 1, Len(s))

take(s, n) == IF usize_ge(n, Len(s)) THEN s ELSE SubSeq(s, 1, n[2])

\* torrent_list with take applied before skip.
torrent_list_take_then_skip(d, req_offset, req_limit) ==
    LET total == U32(tracker_len(d))
        page == skip(take(tracker_iter(d), req_limit), req_offset)
        torrents == [k \in 1..Len(page) |-> page[k].info_hash]
    IN  [total |-> total,
         length |-> U32(Len(torrents)),
         offset |-> req_offset,
         torrents |-> infohash_as_str(torrents)]

\* The TorrentList built from the database.
torrent_list(d, req_offset, req_limit) ==
    LET total == U32(tracker_len(d))
        page == take(skip(tracker_iter(d), req_offset), req_limit)
        torrents == [k \in 1..Len(page) |-> page[k].info_hash]
    IN  [total |-> total,
         length |-> U32(Len(torrents)),
         offset |-> req_offset,
         torrents |-> infohash_as_str(torrents)]

view_torrent_list(r, exts, d) ==
    IF is_none(get_user(exts))
    THEN Outcome(JsonResponse(OK, ApiError("access_denied")), d, << >>, NoLocals)
    ELSE LET req_offset == query_u32(r.offset)
             req_limit == clamp_limit(query_u32(r.limit))
         IN  Outcome(JsonResponse(OK, ApiTorrentList(
                         torrent_list(d, req_offset, req_limit))),
                     d, <<ReadCall("len"), ReadCall("iter")>>,
                     [req_offset |-> Some(req_offset),
                      req_limit |-> Some(req_limit), info_hash |-> None])

\* decode_info_hash with hex2bin's result ignored.
decode_info_hash_unchecked(path) ==
    Some(hex2bin(as_bytes(path), Rep(0, INFO_HASH_LEN)).out)

\* let mut info_hash = [0u8; 20]; binascii::hex2bin(path.as_bytes(), ..)
decode_info_hash(path) ==
    LET r == hex2bin(as_bytes(path), Rep(0, INFO_HASH_LEN))
    IN  IF r.ok THEN Some(r.out) ELSE None

\* torrent_info with the first component of the stats taken for the
\* leechers and the third for the seeders.
torrent_info_swapped(entry) ==
    LET is_flagged == entry_is_flagged(entry)
        stats == entry_get_stats(entry)
    IN  [is_flagged |-> is_flagged,
         seeder_count |-> stats[3],
         leecher_count |-> stats[1],
         completed |-> stats[2]]

\* The TorrentInfo built from an entry: let (seeders, completed, leechers) =
\* entry.get_stats().
torrent_info(entry) ==
    LET is_flagged == entry_is_flagged(entry)
        stats == entry_get_stats(entry)
        seeders == stats[1]
        completed == stats[2]
        leechers == stats[3]
    IN  [is_flagged |-> is_flagged,
         seeder_count |-> seeders,
         leecher_count |-> leechers,
         completed |-> completed]

view_torrent_stats(r, exts, d) ==
    IF is_none(get_user(exts))
    THEN Outcome(JsonResponse(UNAUTHORIZED, ApiError("access_denied")),
                 d, << >>, NoLocals)
    ELSE IF is_none(path_extract(r))
    THEN Outcome(JsonResponse(INTERNAL_SERVER_ERROR, ApiError("internal_error")),
                 d, << >>, NoLocals)
    ELSE LET info_hash == decode_info_hash(unwrap(path_extract(r)))
         IN  IF is_none(info_hash)
             THEN Outcome(JsonResponse(BAD_REQUEST, ApiError("invalid_info_hash")),
                          d, << >>, NoLocals)
             ELSE LET entry == tracker_get(d, unwrap(info_hash))
                      locals == [NoLocals EXCEPT !.info_hash = info_hash]
                  IN  IF is_none(entry)
                      THEN Outcome(JsonResponse(NOT_FOUND, ApiError("not_found")),
                                   d, <<ReadCall("get")>>, locals)
                      ELSE Outcome(JsonResponse(OK, ApiTorrentInfo(
                                       torrent_info(unwrap(entry)))),
                                   d, <<ReadCall("get")>>, locals)

\* flag_arm with the reply depending on what set_torrent_flag returns.
flag_arm_checked(info_hash, d, flag) ==
    LET c == set_torrent_flag(d, info_hash, flag)
        code == IF c.ok THEN OK ELSE INTERNAL_SERVER_ERROR
    IN  Outcome(EmptyResponse(code), c.db,
                <<SetFlagCall(info_hash, flag, c.ok)>>,
                [NoLocals EXCEPT !.info_hash = Some(info_hash)])

\* The arms "flag" and "unflag": the flag is set and the reply is OK with
\* an empty body, whatever set_torrent_flag returns.
flag_arm(info_hash, d, flag) ==
    LET c == set_torrent_flag(d, info_hash, flag)
    IN  Outcome(EmptyResponse(OK), c.db,
                <<SetFlagCall(info_hash, flag, c.ok)>>,
                [NoLocals EXCEPT !.info_hash = Some(info_hash)])

\* The arm "add".
add_arm(info_hash, d, slot) ==
    LET c == add_torrent(d, info_hash, slot)
        success == c.ok
        code == IF success THEN OK ELSE INTERNAL_SERVER_ERROR
    IN  Outcome(EmptyResponse(code), c.db, <<AddCall(info_hash, c.ok)>>,
                [NoLocals EXCEPT !.info_hash = Some(info_hash)])

\* remove_arm without the force flag.
remove_arm_unforced(info_hash, d) ==
    LET c == remove_torrent(d, info_hash, FALSE)
        success == c.ok
        code == IF success THEN OK ELSE INTERNAL_SERVER_ERROR
    IN  Outcome(EmptyResponse(code), c.db,
                <<RemoveCall(info_hash, FALSE, c.ok)>>,
                [NoLocals EXCEPT !.info_hash = Some(info_hash)])

\* The arm "remove".
remove_arm(info_hash, d) ==
    LET c == remove_torrent(d, info_hash, TRUE)
        success == c.ok
        code == IF success THEN OK ELSE INTERNAL_SERVER_ERROR
    IN  Outcome(EmptyResponse(code), c.db,
                <<RemoveCall(info_hash, TRUE, c.ok)>>,
                [NoLocals EXCEPT !.info_hash = Some(info_hash)])

\* dispatch_action matching "Flag" as "flag".
dispatch_action_any_case(action, info_hash, d, slot) ==
    CASE action \in {"flag", "Flag"} -> flag_arm(info_hash, d, TRUE)
      [] action = "unflag" -> flag_arm(info_hash, d, FALSE)
      [] action = "add" -> add_arm(info_hash, d, slot)
      [] action = "remove" -> remove_arm(info_hash, d)
      [] OTHER ->
           Outcome(JsonResponse(BAD_REQUEST, ApiError("invalid_action")),
                   d, << >>, [NoLocals EXCEPT !.info_hash = Some(info_hash)])

\* The match on action.as_str().
dispatch_action(action, info_hash, d, slot) ==
    CASE action = "flag" -> flag_arm(info_hash, d, TRUE)
      [] action = "unflag" -> flag_arm(info_hash, d, FALSE)
      [] action = "add" -> add_arm(info_hash, d, slot)
      [] action = "remove" -> remove_arm(info_hash, d)
      [] OTHER ->
           Outcome(JsonResponse(BAD_REQUEST, ApiError("invalid_action")),
                   d, << >>, [NoLocals EXCEPT !.info_hash = Some(info_hash)])

\* action_param with an absent action read as the empty text.
action_param_or_empty(r) ==
    IF is_none(r.action) THEN Some("") ELSE r.action

\* query.get("action")
action_param(r) == r.action

\* torrent_action_authorized with the info hash decoded before the action
\* parameter is looked at.
torrent_action_decodes_first(r, d, slot) ==
    IF is_none(path_extract(r))
    THEN Outcome(JsonResponse(INTERNAL_SERVER_ERROR, ApiError("internal_error")),
                 d, << >>, NoLocals)
    ELSE LET info_hash == decode_info_hash(unwrap(path_extract(r)))
         IN  IF is_none(info_hash)
             THEN Outcome(JsonResponse(BAD_REQUEST, ApiError("invalid_info_hash")),
                          d, << >>, NoLocals)
             ELSE IF is_none(action_param(r))
             THEN Outcome(JsonResponse(BAD_REQUEST, ApiError("action_required")),
                          d, << >>, NoLocals)
             ELSE dispatch_action(unwrap(action_param(r)), unwrap(info_hash),
                                  d, slot)

\* torrent_action once the user is known: the action parameter, the path,
\* the info hash, the dispatch.
torrent_action_authorized(r, d, slot) ==
    IF is_none(action_param(r))
    THEN Outcome(JsonResponse(BAD_REQUEST, ApiError("action_required")),
                 d, << >>, NoLocals)
    ELSE IF is_none(path_extract(r))
    THEN Outcome(JsonResponse(INTERNAL_SERVER_ERROR, ApiError("internal_error")),
                 d, << >>, NoLocals)
    ELSE LET info_hash == decode_info_hash(unwrap(path_extract(r)))
         IN  IF is_none(info_hash)
             THEN Outcome(JsonResponse(BAD_REQUEST, ApiError("invalid_info_hash")),
                          d, << >>, NoLocals)
             ELSE dispatch_action(unwrap(action_param(r)), unwrap(info_hash),
                                  d, slot)

\* torrent_action with the user checked after the work is done.
torrent_action_checks_user_last(r, exts, d, slot) ==
    LET done == torrent_action_authorized(r, d, slot)
    IN  IF is_none(get_user(exts))
        THEN Outcome(JsonResponse(UNAUTHORIZED, ApiError("access_denied")),
                     done.db, done.calls, NoLocals)
        ELSE done

torrent_action(r, exts, d, slot) ==
    IF is_none(get_user(exts))
    THEN Outcome(JsonResponse(UNAUTHORIZED, ApiError("access_denied")),
                 d, << >>, NoLocals)
    ELSE torrent_action_authorized(r, d, slot)

(***************************************************************************)
(* The requests the model sends.  NumIds info hashes are known to the      *)
(* model, each with its bytes and its lowercase and uppercase text.        *)
(***************************************************************************)
NumIds == 3

KnownHash(i) ==
    [k \in 1..INFO_HASH_LEN |->
        IF k = 1 THEN 171 ELSE IF k = INFO_HASH_LEN THEN i ELSE 0]

LowerText(i) == <<"a", "b">> \o Rep("0", 37) \o <<HexChar(i)>>

UpperText(i) == <<"A", "B">> \o Rep("0", 37) \o <<HexChar(i)>>

\* 40 characters of the route's class that are 41 bytes.
UnicodeText == Rep("0", 39) \o <<UnicodeDigit>>

HashPaths ==
    {ScopePrefix \o LowerText(i) : i \in 1..NumIds}
    \cup {ScopePrefix \o UpperText(1), ScopePrefix \o UnicodeText}

\* Identifiers of the wrong length or with a character outside the class,
\* and a path outside the table.
MalformedPaths ==
    {ScopePrefix \o Rep("0", 39), ScopePrefix \o Rep("0", 41),
     ScopePrefix \o (Rep("0", 39) \o <<"g">>)}

OtherPaths == {<<"/", "x">>}

Methods == {"GET", "POST", "PUT"}

Offsets ==
    {None, Some(<<"1">>), Some(<<"2">>), Some(<<"3">>), Some(<<"-", "1">>),
     Some(<<"4", "2", "9", "4", "9", "6", "7", "2", "9", "5">>)}

Limits ==
    {None, Some(<< >>), Some(<<"0">>), Some(<<"1">>), Some(<<"2">>),
     Some(<<"+", "3">>), Some(<<"1", "x">>),
     Some(<<"4", "0", "9", "6">>), Some(<<"4", "0", "9", "7">>),
     Some(<<"4", "2", "9", "4", "9", "6", "7", "2", "9", "5">>),
     Some(<<"4", "2", "9", "4", "9", "6", "7", "2", "9", "6">>)}

Actions ==
    {None, Some("flag"), Some("unflag"), Some("add"), Some("remove"),
     Some(""), Some("Flag"), Some("delete")}

Request(method, path, token, offset, limit, action) ==
    [method |-> method, path |-> path, token |-> token, offset |-> offset,
     limit |-> limit, action |-> action]

\* Every offset with the limits that cut a page short, and every limit.
ListQueries ==
    (Offsets \X {None, Some(<<"1">>), Some(<<"2">>)})
    \cup ({None, Some(<<"1">>)} \X Limits)

ValidTokens == {Some("h311o")}

InvalidTokens == {None, Some("naim"), Some("")}

Tokens == ValidTokens \cup InvalidTokens

Requests ==
    {Request(m, ListPath, t, q[1], q[2], None) :
        m \in {"GET", "POST"}, t \in ValidTokens, q \in ListQueries}
    \cup {Request(m, ListPath, t, q[1], q[2], None) :
        m \in {"GET", "POST"}, t \in InvalidTokens,
        q \in {<<None, None>>, <<Some(<<"1">>), Some(<<"2">>)>>}}
    \cup {Request("POST", p, t, None, None, a) :
        p \in HashPaths, t \in ValidTokens, a \in Actions}
    \cup {Request("POST", p, t, None, None, a) :
        p \in HashPaths, t \in InvalidTokens,
        a \in {None, Some("flag"), Some("delete")}}
    \cup {Request("GET", p, t, None, None, a) :
        p \in HashPaths, t \in Tokens, a \in {None}}
    \cup {Request("GET", p, t, None, None, Some("flag")) :
        p \in HashPaths, t \in {None, Some("h311o")}}
    \cup {Request(m, p, t, None, None, Some("flag")) :
        m \in {"GET", "POST"}, p \in MalformedPaths \cup OtherPaths,
        t \in {None, Some("h311o")}}
    \cup {Request("POST", p, Some("h311o"), None, None, None) :
        p \in MalformedPaths}
    \cup {Request("PUT", p, Some("h311o"), None, None, Some("flag")) :
        p \in HashPaths}
    \cup {Request(m, RootPath, t, None, None, None) :
        m \in Methods, t \in Tokens}

RequestsTo(h) == {r \in Requests : Route(r) = h}

RootRequests == RequestsTo("view_root")

ListRequests == RequestsTo("view_torrent_list")

StatsRequests == RequestsTo("view_torrent_stats")

ActionRequests == RequestsTo("torrent_action")

UnroutedRequests == RequestsTo("none")

\* The statuses the framework's default handler may answer with.
DefaultStatuses == {404, 405}

(***************************************************************************)
(* The state machine: one step serves one request, from the middleware's   *)
(* start through the handler to the response hook; the request, its        *)
(* extension and its response are dropped when the request ends, and the   *)
(* next request is served from there.                                      *)
(***************************************************************************)
NoRequest == Request("", << >>, None, None, None, None)

NoResponse ==
    [status |-> 0, content_type |-> "", body |-> RawBody(""), server |-> None]

NoRequestLocals ==
    [current_user |-> None, req_offset |-> None, req_limit |-> None,
     info_hash |-> None]

\* A database the tracker may hold when the server starts: one torrent
\* with peers.
SeededDb ==
    <<[info_hash |-> KnownHash(1), is_flagged |-> FALSE, stats |-> <<1, 3, 5>>]>>

(***************************************************************************)
(* The HttpServer's worker threads.  Each builds its own App, and with it  *)
(* its own UdptState, from the factory closure; all share the tracker.     *)
(***************************************************************************)
NumWorkers == 2

Workers == 1..NumWorkers

\* UdptState::new
UdptState_new == [access_tokens |-> access_tokens]

\* A worker with no request in hand.
IdleFlight ==
    [state |-> UdptState_new, stage |-> "Idle", route |-> "idle",
     req |-> NoRequest, exts |-> None, local |-> NoLocals, total |-> None,
     calls |-> << >>, resp |-> None]

NoFlights == [w \in Workers |-> IdleFlight]

Init ==
    /\ db \in {<< >>, SeededDb}
    /\ req = NoRequest
    /\ handler = "idle"
    /\ local = NoRequestLocals
    /\ calls = << >>
    /\ resp = NoResponse
    /\ flight = NoFlights

Serve(r, h, exts, out) ==
    /\ req' = r
    /\ handler' = h
    /\ db' = out.db
    /\ calls' = out.calls
    /\ local' = [current_user |-> get_user(exts),
                 req_offset |-> out.local.req_offset,
                 req_limit |-> out.local.req_limit,
                 info_hash |-> out.local.info_hash]
    /\ resp' = MiddlewareResponse(out.resp)
    /\ UNCHANGED flight

\* The places the tracker may store a torrent this request adds.
Slots(r, d) ==
    IF r.action = Some("add") THEN 1..(Len(d) + 1) ELSE {1}

HandleRoot ==
    /\ handler = "idle"
    /\ \E r \in RootRequests :
           LET exts == Some(MiddlewareStart(r))
           IN  Serve(r, "view_root", exts, view_root(r, exts, db))

HandleList ==
    /\ handler = "idle"
    /\ \E r \in ListRequests :
           LET exts == Some(MiddlewareStart(r))
           IN  Serve(r, "view_torrent_list", exts, view_torrent_list(r, exts, db))

HandleStats ==
    /\ handler = "idle"
    /\ \E r \in StatsRequests :
           LET exts == Some(MiddlewareStart(r))
           IN  Serve(r, "view_torrent_stats", exts, view_torrent_stats(r, exts, db))

HandleAction ==
    /\ handler = "idle"
    /\ \E r \in ActionRequests : \E slot \in Slots(r, db) :
           LET exts == Some(MiddlewareStart(r))
           IN  Serve(r, "torrent_action", exts, torrent_action(r, exts, db, slot))

HandleUnrouted ==
    /\ handler = "idle"
    /\ \E r \in UnroutedRequests, status \in DefaultStatuses :
           LET exts == Some(MiddlewareStart(r))
           IN  Serve(r, "none", exts,
                     Outcome(EmptyResponse(status), db, << >>, NoLocals))

\* The request ends: its state is dropped.
Finish ==
    /\ handler # "idle"
    /\ req' = NoRequest
    /\ handler' = "idle"
    /\ local' = NoRequestLocals
    /\ calls' = << >>
    /\ resp' = NoResponse
    /\ UNCHANGED <<db, flight>>

Next ==
    \/ HandleRoot
    \/ HandleList
    \/ HandleStats
    \/ HandleAction
    \/ HandleUnrouted
    \/ Finish

Spec == Init /\ [][Next]_vars

(***************************************************************************)
(* What the properties read off a request and a response, stated without   *)
(* the handlers' own operators.                                            *)
(***************************************************************************)
HasValidToken(r) ==
    is_some(r.token) /\ unwrap(r.token) \in DOMAIN access_tokens

IsError(response, message) ==
    response.body = [kind |-> "json",
                     api |-> [type |-> "error", message |-> message]]

IsEmptyBody(response) == response.body = [kind |-> "raw", text |-> ""]

IsListPage(response) ==
    /\ response.body.kind = "json"
    /\ response.body.api.type = "torrent_list"

\* The value a text of Offsets or Limits denotes as a u32, None where it is
\* absent or denotes none.
Denoted(param) ==
    CASE param = Some(<<"0">>) -> Some(<<0, 0>>)
      [] param = Some(<<"1">>) -> Some(<<0, 1>>)
      [] param = Some(<<"2">>) -> Some(<<0, 2>>)
      [] param = Some(<<"3">>) -> Some(<<0, 3>>)
      [] param = Some(<<"+", "3">>) -> Some(<<0, 3>>)
      [] param = Some(<<"4", "0", "9", "6">>) -> Some(<<0, 4096>>)
      [] param = Some(<<"4", "0", "9", "7">>) -> Some(<<0, 4097>>)
      [] param = Some(<<"4", "2", "9", "4", "9", "6", "7", "2", "9", "5">>)
           -> Some(<<65535, 65535>>)
      [] OTHER -> None

\* The lowercase text of an info hash the model knows.
TextOf(info_hash) ==
    LowerText(CHOOSE i \in 1..NumIds : KnownHash(i) = info_hash)

\* The identifier segment of a path under /t/.
Segment(r) == SubSeq(r.path, 4, Len(r.path))

IsHashRequest(r) ==
    /\ r.method \in {"GET", "POST"}
    /\ Len(r.path) >= 3
    /\ SubSeq(r.path, 1, 3) = <<"/", "t", "/">>

\* Exactly 40 hexadecimal characters.
IsHexText(text) ==
    /\ Len(text) = 40
    /\ \A k \in 1..Len(text) : text[k] \in AsciiDigits \cup LowerHex \cup UpperHex

\* The bytes a 40-character text of the model denotes.
BytesOf(text) ==
    KnownHash(CHOOSE i \in 1..NumIds : text \in {LowerText(i), UpperText(i)})

(***************************************************************************)
(* C1: a request to the list, info or action route whose token is absent   *)
(* or no key of the access-token table is answered with the error          *)
(* access_denied: status 200 on the list route, 401 on the info and        *)
(* action routes, whatever its other parameters.                           *)
(***************************************************************************)
C1_AccessDenied ==
    ~HasValidToken(req) =>
        /\ handler = "view_torrent_list" =>
              resp.status = 200 /\ IsError(resp, "access_denied")
        /\ handler \in {"view_torrent_stats", "torrent_action"} =>
              resp.status = 401 /\ IsError(resp, "access_denied")

C1_Witness ==
    /\ handler = "view_torrent_list"
    /\ req.token = Some("naim")
    /\ req.limit = Some(<<"2">>)
    /\ resp.status = 200
    /\ IsError(resp, "access_denied")

(***************************************************************************)
(* C2: the database changes only in a step that serves an action request   *)
(* with action flag, unflag, add or remove; a landing, list or info        *)
(* request, and an action request answered access_denied, action_required, *)
(* invalid_info_hash or invalid_action, leaves the database as it was.     *)
(***************************************************************************)
C2_OnlyActionsMutate ==
    [][/\ db' # db =>
             /\ handler' = "torrent_action"
             /\ req'.action \in {Some("flag"), Some("unflag"), Some("add"),
                                 Some("remove")}
       /\ (\/ handler' \in {"view_root", "view_torrent_list",
                            "view_torrent_stats"}
           \/ /\ handler' = "torrent_action"
              /\ \E m \in {"access_denied", "action_required",
                           "invalid_info_hash", "invalid_action"} :
                     IsError(resp', m))
          => db' = db]_vars

C2_Witness ==
    /\ handler = "torrent_action"
    /\ req.action = Some("flag")
    /\ ~HasValidToken(req)
    /\ IsHexText(Segment(req))
    /\ IsError(resp, "access_denied")
    /\ \E i \in 1..Len(db) :
           /\ db[i].info_hash = BytesOf(Segment(req))
           /\ ~db[i].is_flagged

(***************************************************************************)
(* C3: in the list handler the effective limit is decided by the limit     *)
(* parameter alone: 4096 for a value above 4096, 1000 for 0 and for a      *)
(* parameter that is absent or no u32, the value itself from 1 to 4096.    *)
(***************************************************************************)
C3_EffectiveLimit ==
    (handler = "view_torrent_list" /\ HasValidToken(req)) =>
        /\ is_some(local.req_limit)
        /\ LET given == Denoted(req.limit)
               effective == unwrap(local.req_limit)
           IN  /\ (is_none(given) \/ given = Some(<<0, 0>>)) =>
                      effective = <<0, 1000>>
               /\ (is_some(given) /\ u32_gt(unwrap(given), <<0, 4096>>)) =>
                      effective = <<0, 4096>>
               /\ (/\ is_some(given)
                   /\ given # Some(<<0, 0>>)
                   /\ ~u32_gt(unwrap(given), <<0, 4096>>)) =>
                      effective = unwrap(given)

C3_Witness ==
    /\ handler = "view_torrent_list"
    /\ req.limit = Some(<<"4", "0", "9", "7">>)
    /\ local.req_limit = Some(<<0, 4096>>)

(***************************************************************************)
(* C4: an authenticated list request returns the entries at positions      *)
(* offset+1 .. offset+length of the database's stored order, in that       *)
(* order; length is the number of items and is                             *)
(* min(effective limit, max(0, total - offset)); total is the number of    *)
(* entries; the offset field is the effective offset.                      *)
(***************************************************************************)
C4_ListPage ==
    (handler = "view_torrent_list" /\ HasValidToken(req)) =>
        /\ IsListPage(resp)
        /\ LET page == resp.body.api.list
               given == Denoted(req.offset)
               offset == IF is_some(given) THEN unwrap(given) ELSE <<0, 0>>
               limit == unwrap(local.req_limit)
               total == Len(db)
               remaining == IF offset[1] > 0 \/ offset[2] >= total THEN 0
                            ELSE total - offset[2]
               length == IF limit[2] < remaining THEN limit[2] ELSE remaining
           IN  /\ page.total = <<0, total>>
               /\ page.offset = offset
               /\ page.length = <<0, length>>
               /\ Len(page.torrents) = length
               /\ \A k \in 1..length :
                      page.torrents[k] = TextOf(db[offset[2] + k].info_hash)

C4_Witness ==
    /\ handler = "view_torrent_list"
    /\ req.offset = Some(<<"1">>)
    /\ req.limit = Some(<<"1">>)
    /\ Len(db) = 3
    /\ IsListPage(resp)
    /\ resp.body.api.list.length = <<0, 1>>
    /\ resp.body.api.list.torrents = <<TextOf(db[2].info_hash)>>

(***************************************************************************)
(* C5: an authenticated list request whose offset is at or past the number *)
(* of entries gets a list page, not an error, with length 0, no items and  *)
(* total the number of entries; this up to the largest u32 offset.         *)
(***************************************************************************)
C5_OffsetPastEnd ==
    LET given == Denoted(req.offset)
        offset == IF is_some(given) THEN unwrap(given) ELSE <<0, 0>>
    IN  (/\ handler = "view_torrent_list"
         /\ HasValidToken(req)
         /\ (offset[1] > 0 \/ offset[2] >= Len(db))) =>
            /\ resp.status = 200
            /\ IsListPage(resp)
            /\ resp.body.api.list.length = <<0, 0>>
            /\ resp.body.api.list.torrents = << >>
            /\ resp.body.api.list.total = <<0, Len(db)>>

C5_Witness ==
    /\ handler = "view_torrent_list"
    /\ req.offset = Some(<<"4", "2", "9", "4", "9", "6", "7", "2", "9", "5">>)
    /\ Len(db) = 3
    /\ IsListPage(resp)
    /\ resp.body.api.list.length = <<0, 0>>
    /\ resp.body.api.list.total = <<0, 3>>

(***************************************************************************)
(* C6, as claimed: an authenticated GET or POST under /t/ whose identifier *)
(* is not exactly 40 hexadecimal characters is answered invalid_info_hash  *)
(* with status 400.                                                        *)
(***************************************************************************)
C6_MalformedAlwaysInvalidInfoHash ==
    (/\ HasValidToken(req)
     /\ IsHashRequest(req)
     /\ ~IsHexText(Segment(req))) =>
        resp.status = 400 /\ IsError(resp, "invalid_info_hash")

(***************************************************************************)
(* C6, amended: an authenticated request dispatched to the info handler,   *)
(* or dispatched to the action handler with an action parameter, whose     *)
(* identifier is not 40 hexadecimal characters is answered                 *)
(* invalid_info_hash with status 400; an identifier of another length or   *)
(* with a character outside the route's class is dispatched to neither     *)
(* handler.                                                                *)
(***************************************************************************)
C6_UndecodableInvalidInfoHash ==
    /\ (/\ handler \in {"view_torrent_stats", "torrent_action"}
        /\ HasValidToken(req)
        /\ handler = "torrent_action" => is_some(req.action)
        /\ ~IsHexText(Segment(req))) =>
           resp.status = 400 /\ IsError(resp, "invalid_info_hash")
    /\ (/\ IsHashRequest(req)
        /\ \/ Len(Segment(req)) # 40
           \/ \E k \in 1..Len(Segment(req)) :
                  Segment(req)[k] \notin AsciiDigits \cup LowerHex \cup UpperHex
                                         \cup {"U+0663"}) =>
           handler = "none"

C6_Witness ==
    /\ handler = "view_torrent_stats"
    /\ HasValidToken(req)
    /\ ~IsHexText(Segment(req))
    /\ resp.status = 400
    /\ IsError(resp, "invalid_info_hash")

(***************************************************************************)
(* C7: an authenticated action request with a valid identifier and action  *)
(* flag (unflag) makes the one tracker call set_torrent_flag with true     *)
(* (false) for that identifier and is answered 200 with an empty body,     *)
(* whether the torrent exists or not and whatever the call returns.        *)
(***************************************************************************)
C7_FlagAlwaysOk ==
    (/\ handler = "torrent_action"
     /\ HasValidToken(req)
     /\ IsHexText(Segment(req))
     /\ req.action \in {Some("flag"), Some("unflag")}) =>
        /\ resp.status = 200
        /\ IsEmptyBody(resp)
        /\ Len(calls) = 1
        /\ calls[1].op = "set_torrent_flag"
        /\ calls[1].info_hash = BytesOf(Segment(req))
        /\ calls[1].arg = (req.action = Some("flag"))

C7_Witness ==
    /\ handler = "torrent_action"
    /\ req.action = Some("unflag")
    /\ Len(calls) = 1
    /\ calls[1].op = "set_torrent_flag"
    /\ ~calls[1].ok
    /\ \A i \in 1..Len(db) : db[i].info_hash # BytesOf(Segment(req))
    /\ resp.status = 200
    /\ IsEmptyBody(resp)

(***************************************************************************)
(* C8: an authenticated action request with a valid identifier and action  *)
(* add (remove) makes the one tracker call add_torrent (remove_torrent     *)
(* with the force flag true) for that identifier; the status is 200 if the *)
(* call succeeded and 500 if not, and the body is empty either way.        *)
(***************************************************************************)
C8_AddRemoveStatus ==
    (/\ handler = "torrent_action"
     /\ HasValidToken(req)
     /\ IsHexText(Segment(req))
     /\ req.action \in {Some("add"), Some("remove")}) =>
        /\ Len(calls) = 1
        /\ calls[1].info_hash = BytesOf(Segment(req))
        /\ req.action = Some("add") => calls[1].op = "add_torrent"
        /\ req.action = Some("remove") =>
              calls[1].op = "remove_torrent" /\ calls[1].arg = TRUE
        /\ resp.status = (IF calls[1].ok THEN 200 ELSE 500)
        /\ IsEmptyBody(resp)

C8_Witness ==
    /\ handler = "torrent_action"
    /\ req.action = Some("add")
    /\ Len(calls) = 1
    /\ ~calls[1].ok
    /\ \E i \in 1..Len(db) : db[i].info_hash = BytesOf(Segment(req))
    /\ resp.status = 500
    /\ IsEmptyBody(resp)

(***************************************************************************)
(* C9: an authenticated action request without an action parameter is      *)
(* answered 400 action_required, for every identifier.                     *)
(***************************************************************************)
C9_ActionRequired ==
    (/\ handler = "torrent_action"
     /\ HasValidToken(req)
     /\ req.action = None) =>
        resp.status = 400 /\ IsError(resp, "action_required")

C9_Witness ==
    /\ handler = "torrent_action"
    /\ HasValidToken(req)
    /\ req.action = None
    /\ ~IsHexText(Segment(req))
    /\ resp.status = 400
    /\ IsError(resp, "action_required")

(***************************************************************************)
(* C10: an authenticated action request with a valid identifier whose      *)
(* action is none of flag, unflag, add, remove (the empty text and another *)
(* casing included) is answered 400 invalid_action.                        *)
(***************************************************************************)
C10_InvalidAction ==
    (/\ handler = "torrent_action"
     /\ HasValidToken(req)
     /\ IsHexText(Segment(req))
     /\ is_some(req.action)
     /\ unwrap(req.action) \notin {"flag", "unflag", "add", "remove"}) =>
        /\ resp.status = 400
        /\ IsError(resp, "invalid_action")
        /\ calls = << >>

C10_Witness ==
    /\ handler = "torrent_action"
    /\ HasValidToken(req)
    /\ IsHexText(Segment(req))
    /\ req.action = Some("Flag")
    /\ resp.status = 400
    /\ IsError(resp, "invalid_action")

(***************************************************************************)
(* C11: an authenticated info request with a valid identifier is answered  *)
(* 404 not_found when the database has no entry for it, and otherwise 200  *)
(* with a torrent_info whose is_flagged is the entry's flag and whose      *)
(* seeder_count, completed and leecher_count are the first, second and     *)
(* third component of the entry's stats.                                   *)
(***************************************************************************)
C11_TorrentInfo ==
    (/\ handler = "view_torrent_stats"
     /\ HasValidToken(req)
     /\ IsHexText(Segment(req))) =>
        LET found == {i \in 1..Len(db) :
                         db[i].info_hash = BytesOf(Segment(req))}
        IN  IF found = {}
            THEN resp.status = 404 /\ IsError(resp, "not_found")
            ELSE LET entry == db[CHOOSE i \in found : TRUE]
                 IN  /\ resp.status = 200
                     /\ resp.body =
                          [kind |-> "json",
                           api |-> [type |-> "torrent_info",
                                    info |-> [is_flagged |-> entry.is_flagged,
                                              seeder_count |-> entry.stats[1],
                                              completed |-> entry.stats[2],
                                              leecher_count |-> entry.stats[3]]]]

C11_Witness ==
    /\ handler = "view_torrent_stats"
    /\ resp.status = 200
    /\ resp.body.kind = "json"
    /\ resp.body.api.type = "torrent_info"
    /\ resp.body.api.info = [is_flagged |-> TRUE, seeder_count |-> 1,
                             completed |-> 3, leecher_count |-> 5]

(***************************************************************************)
(* C12: the server dispatches exactly the fixed route table: GET / to the  *)
(* landing handler, GET /t to the list handler, GET /t/{40 hex characters} *)
(* to the info handler and POST /t/{40 hex characters} to the action       *)
(* handler; every other combination of method and path reaches none of     *)
(* them.  The resource "/t" is registered without a method filter, so a    *)
(* POST to /t reaches the list handler: the statement does not hold.       *)
(***************************************************************************)
C12_ExactRouteTable ==
    handler # "idle" =>
        handler =
          (IF req.method = "GET" /\ req.path = <<"/">> THEN "view_root"
           ELSE IF req.method = "GET" /\ req.path = <<"/", "t">>
                THEN "view_torrent_list"
           ELSE IF IsHashRequest(req) /\ IsHexText(Segment(req))
                THEN (IF req.method = "GET" THEN "view_torrent_stats"
                      ELSE IF req.method = "POST" THEN "torrent_action"
                      ELSE "none")
           ELSE "none")

(***************************************************************************)
(* C13: the principal of a request is present exactly when the request     *)
(* carries a token that is a key of the access-token table, and is then    *)
(* the principal bound to it (h311o resolves to naim).  The principal is   *)
(* attached before the handler body runs: the handler's own check sees it, *)
(* so an authenticated route answers access_denied exactly when no         *)
(* principal is attached.  The middleware itself never answers: every 401  *)
(* is the access_denied envelope written by a handler.                     *)
(***************************************************************************)
C13_Principal ==
    handler # "idle" =>
        /\ local.current_user =
             (IF req.token = <<"h311o">> THEN <<"naim">> ELSE << >>)
        /\ handler \in {"view_torrent_list", "view_torrent_stats",
                        "torrent_action"} =>
               (IsError(resp, "access_denied") <=> local.current_user = << >>)
        /\ resp.status = 401 =>
               /\ IsError(resp, "access_denied")
               /\ handler \in {"view_torrent_list", "view_torrent_stats",
                               "torrent_action"}

C13_Witness ==
    /\ handler = "view_torrent_stats"
    /\ req.token = <<"h311o">>
    /\ local.current_user = <<"naim">>
    /\ resp.status = 200

(***************************************************************************)
(* C16 as stated: the landing route answers 200 with the literal HTML body *)
(* for every request, with or without a valid token, and without reading   *)
(* the engine; it is the only unauthenticated endpoint and the only        *)
(* endpoint whose response body is not JSON.  The action handler answers   *)
(* flag, unflag, add and remove with an empty body, which is not JSON: the *)
(* last part does not hold.                                                *)
(***************************************************************************)
C16_LandingOnlyNonJson ==
    /\ handler = "view_root" =>
           /\ resp.status = 200
           /\ resp.body = [kind |-> "raw", text |-> RootHtml]
           /\ calls = << >>
    /\ (/\ handler \in {"view_torrent_list", "view_torrent_stats",
                        "torrent_action"}
        /\ req.token # <<"h311o">>) => IsError(resp, "access_denied")
    /\ handler \in {"view_torrent_list", "view_torrent_stats",
                    "torrent_action"} => resp.body.kind = "json"

(***************************************************************************)
(* C16, amended: the landing route answers 200 with the literal HTML body  *)
(* for every request, with or without a valid token, and without reading   *)
(* the engine; it is the only unauthenticated endpoint and the only one    *)
(* that answers with a non-empty body that is not JSON.  The other         *)
(* endpoints answer with JSON, except that the action endpoint answers an  *)
(* authenticated flag, unflag, add or remove with an empty body.           *)
(***************************************************************************)
C16_LandingOnlyHtml ==
    /\ handler = "view_root" =>
           /\ resp.status = 200
           /\ resp.body = [kind |-> "raw", text |-> RootHtml]
           /\ calls = << >>
    /\ (/\ handler \in {"view_torrent_list", "view_torrent_stats",
                        "torrent_action"}
        /\ req.token # <<"h311o">>) => IsError(resp, "access_denied")
    /\ handler \in {"view_torrent_list", "view_torrent_stats"} =>
           resp.body.kind = "json"
    /\ handler = "torrent_action" =>
           \/ resp.body.kind = "json"
           \/ /\ IsEmptyBody(resp)
              /\ req.token = <<"h311o">>
              /\ req.action \in {<<"flag">>, <<"unflag">>, <<"add">>,
                                 <<"remove">>}

C16_Witness ==
    /\ handler = "view_root"
    /\ req.token = << >>
    /\ resp.status = 200
    /\ resp.body = [kind |-> "raw", text |-> RootHtml]
    /\ db # << >>

(***************************************************************************)
(* C18: the action handler checks, in this order, the user, the presence   *)
(* of action, the decoding of the identifier and the action's value, and   *)
(* answers with the error of the first check that fails: without a valid   *)
(* token access_denied (401) whatever the action; with a valid token and   *)
(* no action action_required whatever the identifier; with a valid token,  *)
(* an action and an undecodable identifier invalid_info_hash whatever the  *)
(* action's value; invalid_action only when all the earlier checks pass.   *)
(***************************************************************************)
C18_EarliestFailureWins ==
    handler = "torrent_action" =>
        IF req.token # <<"h311o">>
        THEN resp.status = 401 /\ IsError(resp, "access_denied")
        ELSE IF req.action = << >>
        THEN resp.status = 400 /\ IsError(resp, "action_required")
        ELSE IF ~IsHexText(Segment(req))
        THEN resp.status = 400 /\ IsError(resp, "invalid_info_hash")
        ELSE IF req.action \notin {<<"flag">>, <<"unflag">>, <<"add">>,
                                   <<"remove">>}
        THEN resp.status = 400 /\ IsError(resp, "invalid_action")
        ELSE IsEmptyBody(resp)

C18_Witness ==
    /\ handler = "torrent_action"
    /\ req.token = <<"h311o">>
    /\ req.action = <<"delete">>
    /\ ~IsHexText(Segment(req))
    /\ resp.status = 400
    /\ IsError(resp, "invalid_info_hash")

(***************************************************************************)
(* The response hook on its own.  A response of any of the shapes the      *)
(* handlers and the default handler build, with any value of the server    *)
(* header already in it, is handed to UdptMiddleware::response.            *)
(***************************************************************************)
ErrorMessages ==
    {"access_denied", "internal_error", "invalid_info_hash", "not_found",
     "action_required", "invalid_action"}

HookStatuses ==
    {OK, BAD_REQUEST, UNAUTHORIZED, NOT_FOUND, INTERNAL_SERVER_ERROR}
        \cup DefaultStatuses

\* The responses without the header: error envelopes, empty bodies, the
\* landing page, a torrent list and a torrent info.
BuiltResponses ==
    {JsonResponse(status, ApiError(message)) :
        status \in HookStatuses, message \in ErrorMessages}
    \cup {EmptyResponse(status) : status \in HookStatuses}
    \cup {view_root(NoRequest, None, << >>).resp}
    \cup {JsonResponse(OK, ApiTorrentList(torrent_list(d, U32(0), U32(0)))) :
             d \in {<< >>, SeededDb}}
    \cup {JsonResponse(OK, ApiTorrentInfo(torrent_info(SeededDb[1])))}

\* The values the header can have before the hook: absent, set by something
\* else, already the server's own.
PriorServers == {None, Some(<<"actix-web">>), Some(SERVER)}

InitHook ==
    /\ db = << >>
    /\ req = NoRequest
    /\ handler = "before_response"
    /\ local = NoRequestLocals
    /\ calls = << >>
    /\ resp \in {[response EXCEPT !.server = prior] :
                    response \in BuiltResponses, prior \in PriorServers}
    /\ flight = NoFlights

ResponseHook ==
    /\ handler = "before_response"
    /\ resp' = MiddlewareResponse(resp)
    /\ handler' = "after_response"
    /\ UNCHANGED <<db, req, local, calls, flight>>

NextHook == ResponseHook

SpecHook == InitHook /\ [][NextHook]_vars

(***************************************************************************)
(* C14: whatever the status and the body of a response (success, error     *)
(* envelope or empty body) and whatever the server header held before, the *)
(* response leaves the response hook with the server header udpt/<version> *)
(* and is otherwise the response that entered it.                          *)
(***************************************************************************)
C14_ServerHeader ==
    [][handler = "before_response" =>
          /\ resp'.server = << <<"udpt/", "<version>">> >>
          /\ resp'.status = resp.status
          /\ resp'.content_type = resp.content_type
          /\ resp'.body = resp.body]_vars

C14_Witness ==
    /\ handler = "after_response"
    /\ resp.status = 500
    /\ IsEmptyBody(resp)
    /\ resp.server = << <<"udpt/", "<version>">> >>

(***************************************************************************)
(* The identifier's two conversions, one after the other.  The database    *)
(* holds one torrent; an authenticated client lists it, and then asks for  *)
(* the info of, or flags, the identifier it read in the list.              *)
(***************************************************************************)
SampleBytes == {0, 9, 10, 16, 127, 171, 255}

\* Identifiers with one byte value at the odd and one at the even places.
SampleHash(a, b) ==
    [k \in 1..INFO_HASH_LEN |-> IF k % 2 = 1 THEN a ELSE b]

\* Every byte value at every place, and the sample values in pairs.
SampleHashes ==
    {SampleHash(a, a) : a \in 0..255}
        \cup {SampleHash(a, b) : a \in SampleBytes, b \in SampleBytes}

InitCodec ==
    /\ db \in {<<NewEntry(info_hash)>> : info_hash \in SampleHashes}
    /\ req = NoRequest
    /\ handler = "idle"
    /\ local = NoRequestLocals
    /\ calls = << >>
    /\ resp = NoResponse
    /\ flight = NoFlights

ListEncoded ==
    /\ handler = "idle"
    /\ LET r == Request("GET", ListPath, Some("h311o"), None, None, None)
           exts == Some(MiddlewareStart(r))
       IN  Serve(r, Route(r), exts, view_torrent_list(r, exts, db))

\* A request for an identifier as the list response wrote it.
ListedRequests(method, action) ==
    IF handler = "view_torrent_list" /\ IsListPage(resp)
    THEN {Request(method, ScopePrefix \o resp.body.api.list.torrents[k],
                  Some("h311o"), None, None, action) :
             k \in 1..Len(resp.body.api.list.torrents)}
    ELSE {}

StatsDecoded ==
    \E r \in ListedRequests("GET", None) :
        /\ Route(r) = "view_torrent_stats"
        /\ LET exts == Some(MiddlewareStart(r))
           IN  Serve(r, Route(r), exts, view_torrent_stats(r, exts, db))

ActionDecoded ==
    \E r \in ListedRequests("POST", Some("flag")) :
        /\ Route(r) = "torrent_action"
        /\ LET exts == Some(MiddlewareStart(r))
           IN  Serve(r, Route(r), exts, torrent_action(r, exts, db, 1))

NextCodec == ListEncoded \/ StatsDecoded \/ ActionDecoded

SpecCodec == InitCodec /\ [][NextCodec]_vars

(***************************************************************************)
(* C15: the text the list response gives for a 20-byte identifier is 40    *)
(* lowercase hexadecimal characters, and decoding that text as the info    *)
(* and action handlers decode a path identifier gives the 20 bytes back.   *)
(***************************************************************************)
C15_RoundTrip ==
    /\ handler = "view_torrent_list" =>
           /\ IsListPage(resp)
           /\ Len(resp.body.api.list.torrents) = Len(db)
           /\ \A k \in 1..Len(db) :
                  /\ Len(resp.body.api.list.torrents[k]) = 40
                  /\ \A j \in 1..40 :
                         resp.body.api.list.torrents[k][j]
                             \in AsciiDigits \cup LowerHex
    /\ handler \in {"view_torrent_stats", "torrent_action"} =>
           /\ local.info_hash = <<db[1].info_hash>>
           /\ resp.status = 200

C15_Witness ==
    /\ handler = "view_torrent_stats"
    /\ Segment(req) = [k \in 1..40 |-> <<"a", "b", "7", "f">>[((k - 1) % 4) + 1]]
    /\ local.info_hash = <<SampleHash(171, 127)>>
    /\ resp.status = 200

(***************************************************************************)
(* Requests served step by step, by several workers at once.  A worker     *)
(* takes a request and runs the middleware's start; the handler then       *)
(* checks the user, checks its parameters, calls the tracker and builds    *)
(* its response, which leaves through the middleware's response hook.      *)
(* Between two steps of one worker the other workers may take any of       *)
(* theirs.                                                                 *)
(***************************************************************************)
\* TorrentTracker::get_database: the handle the list handler reads the
\* database through.  A read through it sees the database as it is when
\* the read is made.
get_database(d) == d

\* MiddlewareStartIn that also binds an unknown token to itself in the
\* worker's table.
MiddlewareStartIn_learns_token(app_state, r) ==
    LET known == DOMAIN app_state.access_tokens
        seen == IF is_some(r.token) THEN {unwrap(r.token)} ELSE {}
    IN  [app_state |->
             [access_tokens |->
                 [token \in known \cup seen |->
                     IF token \in known THEN app_state.access_tokens[token]
                     ELSE token]],
         req_state |->
             IF is_some(r.token) /\ unwrap(r.token) \in known
             THEN [current_user |-> Some(app_state.access_tokens[unwrap(r.token)])]
             ELSE [current_user |-> None]]

\* UdptMiddleware::start, with req.state() given: the application state
\* after it and the UdptRequestState it puts into the extensions.
MiddlewareStartIn(app_state, r) ==
    [app_state |-> app_state,
     req_state |->
         IF is_some(r.token) /\ unwrap(r.token) \in DOMAIN app_state.access_tokens
         THEN [current_user |-> Some(app_state.access_tokens[unwrap(r.token)])]
         ELSE [current_user |-> None]]

\* The worker takes request r: routing, and the middleware's start.
received(f, r) ==
    LET started == MiddlewareStartIn(f.state, r)
    IN  [f EXCEPT !.state = started.app_state,
                  !.stage = "Unauthenticated",
                  !.route = Route(r),
                  !.req = r,
                  !.exts = Some(started.req_state)]

\* A handler returns response: it goes through the response hook.
responded(f, response) ==
    [f EXCEPT !.stage = "Responded",
              !.resp = Some(MiddlewareResponse(response))]

\* What each handler returns when get_user is None.
access_denied(route) ==
    IF route = "view_torrent_list"
    THEN JsonResponse(OK, ApiError("access_denied"))
    ELSE JsonResponse(UNAUTHORIZED, ApiError("access_denied"))

\* authenticate with the handler going on after it has built the
\* access_denied response.
authenticate_goes_on(f) ==
    IF is_none(get_user(f.exts))
    THEN [f EXCEPT !.stage = "Authenticated",
                   !.resp = Some(access_denied(f.route))]
    ELSE [f EXCEPT !.stage = "Authenticated"]

\* The first statement of each handler: if get_user(req).is_none() return.
authenticate(f) ==
    IF is_none(get_user(f.exts))
    THEN responded(f, access_denied(f.route))
    ELSE [f EXCEPT !.stage = "Authenticated"]

\* The path's info_hash extracted and decoded, in the info and the action
\* handler.
validate_info_hash(f) ==
    IF is_none(path_extract(f.req))
    THEN responded(f, JsonResponse(INTERNAL_SERVER_ERROR,
                                   ApiError("internal_error")))
    ELSE LET info_hash == decode_info_hash(unwrap(path_extract(f.req)))
         IN  IF is_none(info_hash)
             THEN responded(f, JsonResponse(BAD_REQUEST,
                                            ApiError("invalid_info_hash")))
             ELSE [f EXCEPT !.stage = "Validated",
                            !.local = [NoLocals EXCEPT !.info_hash = info_hash]]

\* The handler's checks of its parameters.
validate(f) ==
    CASE f.route = "view_torrent_list" ->
           [f EXCEPT !.stage = "Validated",
                     !.local = [req_offset |-> Some(query_u32(f.req.offset)),
                                req_limit |->
                                    Some(clamp_limit(query_u32(f.req.limit))),
                                info_hash |-> None]]
      [] f.route = "view_torrent_stats" -> validate_info_hash(f)
      [] f.route = "torrent_action" ->
           IF is_none(action_param(f.req))
           THEN responded(f, JsonResponse(BAD_REQUEST,
                                          ApiError("action_required")))
           ELSE validate_info_hash(f)

\* list_with_total with the total counted again when the items are read.
list_with_own_total(list, total) == list

\* TorrentList{total, ..}: the list of the items read, with the total that
\* was read before them.
list_with_total(list, total) == [list EXCEPT !.total = total]

\* The handler's first call of the tracker on database d: the flight and
\* the database after it.  The list handler reads the total; the info
\* handler looks the entry up; the action handler matches on the action.
dispatch(f, d, slot) ==
    CASE f.route = "view_torrent_list" ->
           [flight |-> [f EXCEPT !.stage = "Dispatched",
                                 !.total = Some(U32(tracker_len(get_database(d)))),
                                 !.calls = <<ReadCall("len")>>],
            db |-> d]
      [] f.route = "view_torrent_stats" ->
           LET entry == tracker_get(d, unwrap(f.local.info_hash))
               response ==
                   IF is_none(entry)
                   THEN JsonResponse(NOT_FOUND, ApiError("not_found"))
                   ELSE JsonResponse(OK, ApiTorrentInfo(
                                             torrent_info(unwrap(entry))))
           IN  [flight |-> [f EXCEPT !.stage = "Dispatched",
                                     !.calls = <<ReadCall("get")>>,
                                     !.resp = Some(response)],
                db |-> d]
      [] f.route = "torrent_action" ->
           LET out == dispatch_action(unwrap(action_param(f.req)),
                                      unwrap(f.local.info_hash), d, slot)
           IN  IF out.resp.status = BAD_REQUEST
               THEN [flight |-> [responded(f, out.resp) EXCEPT
                                     !.calls = out.calls],
                     db |-> out.db]
               ELSE [flight |-> [f EXCEPT !.stage = "Dispatched",
                                          !.calls = out.calls,
                                          !.resp = Some(out.resp)],
                     db |-> out.db]

\* The list handler's loop over app_db.iter(), and the TorrentList built
\* from it.
enumerate(f, d) ==
    [f EXCEPT !.calls = @ \o <<ReadCall("iter")>>,
              !.resp = Some(JsonResponse(OK, ApiTorrentList(
                           list_with_total(
                               torrent_list(get_database(d),
                                            unwrap(f.local.req_offset),
                                            unwrap(f.local.req_limit)),
                               unwrap(f.total)))))]

\* The requests the workers serve: one that succeeds on each route, one
\* with a token that is not in the table, and one on which each check of
\* the action handler fails.
ConcRequests ==
    {Request("GET", ListPath, Some("h311o"), None, None, None),
     Request("GET", ScopePrefix \o LowerText(1), Some("h311o"), None, None, None),
     Request("GET", ScopePrefix \o LowerText(1), Some("naim"), None, None, None),
     Request("POST", ScopePrefix \o LowerText(1), Some("h311o"), None, None, Some("add")),
     Request("POST", ScopePrefix \o LowerText(1), Some("h311o"), None, None, Some("remove")),
     Request("POST", ScopePrefix \o LowerText(1), Some("h311o"), None, None, None),
     Request("POST", ScopePrefix \o LowerText(1), Some("h311o"), None, None, Some("delete")),
     Request("POST", ScopePrefix \o UnicodeText, Some("h311o"), None, None, Some("add"))}

InitConc ==
    /\ db = << >>
    /\ req = NoRequest
    /\ handler = "idle"
    /\ local = NoRequestLocals
    /\ calls = << >>
    /\ resp = NoResponse
    /\ flight = NoFlights

Receive(w) ==
    /\ flight[w].stage = "Idle"
    /\ \E r \in ConcRequests :
           flight' = [flight EXCEPT ![w] = received(flight[w], r)]
    /\ UNCHANGED <<db, req, handler, local, calls, resp>>

Authenticate(w) ==
    /\ flight[w].stage = "Unauthenticated"
    /\ flight' = [flight EXCEPT ![w] = authenticate(flight[w])]
    /\ UNCHANGED <<db, req, handler, local, calls, resp>>

Validate(w) ==
    /\ flight[w].stage = "Authenticated"
    /\ flight' = [flight EXCEPT ![w] = validate(flight[w])]
    /\ UNCHANGED <<db, req, handler, local, calls, resp>>

Dispatch(w) ==
    /\ flight[w].stage = "Validated"
    /\ \E slot \in Slots(flight[w].req, db) :
           LET out == dispatch(flight[w], db, slot)
           IN  /\ flight' = [flight EXCEPT ![w] = out.flight]
               /\ db' = out.db
    /\ UNCHANGED <<req, handler, local, calls, resp>>

Enumerate(w) ==
    /\ flight[w].stage = "Dispatched"
    /\ flight[w].route = "view_torrent_list"
    /\ is_none(flight[w].resp)
    /\ flight' = [flight EXCEPT ![w] = enumerate(flight[w], db)]
    /\ UNCHANGED <<db, req, handler, local, calls, resp>>

Respond(w) ==
    /\ flight[w].stage = "Dispatched"
    /\ is_some(flight[w].resp)
    /\ flight' = [flight EXCEPT ![w] = responded(flight[w], unwrap(flight[w].resp))]
    /\ UNCHANGED <<db, req, handler, local, calls, resp>>

\* The request ends: its state is dropped, the worker's application state
\* stays.
Release(w) ==
    /\ flight[w].stage = "Responded"
    /\ flight' = [flight EXCEPT ![w] = [IdleFlight EXCEPT !.state = flight[w].state]]
    /\ UNCHANGED <<db, req, handler, local, calls, resp>>

\* The next step of the request worker w has in hand.
Advance(w) ==
    \/ Authenticate(w)
    \/ Validate(w)
    \/ Dispatch(w)
    \/ Enumerate(w)
    \/ Respond(w)

NextConc == \E w \in Workers : Receive(w) \/ Advance(w) \/ Release(w)

SpecConc == InitConc /\ [][NextConc]_vars

(***************************************************************************)
(* Helpers for the properties of the stepwise specification.               *)
(***************************************************************************)
StageRank(stage) ==
    CASE stage = "Idle" -> 0
      [] stage = "Unauthenticated" -> 1
      [] stage = "Authenticated" -> 2
      [] stage = "Validated" -> 3
      [] stage = "Dispatched" -> 4
      [] stage = "Responded" -> 5

\* The check the flight is about to make fails on its request.
CheckFails(f) ==
    \/ /\ f.stage = "Unauthenticated"
       /\ f.req.token # <<"h311o">>
    \/ /\ f.stage = "Authenticated"
       /\ \/ f.route = "torrent_action" /\ f.req.action = << >>
          \/ /\ f.route \in {"view_torrent_stats", "torrent_action"}
             /\ ~IsHexText(Segment(f.req))
    \/ /\ f.stage = "Validated"
       /\ f.route = "torrent_action"
       /\ f.req.action \notin {<<"flag">>, <<"unflag">>, <<"add">>, <<"remove">>}

IsErrorEnvelope(response) ==
    /\ response.body.kind = "json"
    /\ response.body.api.type = "error"

\* One step as worker w's flight sees it.
StageStep(w) ==
    LET f == flight[w]
        g == flight'[w]
    IN  \/ g = f
        \/ f.stage = "Idle" /\ g.stage = "Unauthenticated"
        \/ f.stage = "Responded" /\ g.stage = "Idle"
        \/ /\ f.stage \notin {"Idle", "Responded"}
           /\ g.req = f.req
           /\ IF CheckFails(f)
              THEN /\ g.stage = "Responded"
                   /\ IsErrorEnvelope(g.resp[1])
                   /\ g.calls = << >>
                   /\ db' = db
              ELSE \/ /\ StageRank(g.stage) = StageRank(f.stage) + 1
                      /\ f.stage = "Dispatched" =>
                             /\ g.resp = <<[f.resp[1] EXCEPT
                                              !.server = << <<"udpt/", "<version>">> >>]>>
                             /\ g.calls = f.calls
                             /\ db' = db
                   \/ /\ f.stage = "Dispatched"
                      /\ g.stage = "Dispatched"
                      /\ f.resp = << >>

\* The response has left the hook exactly when the flight is Responded.
RespondedOnce(w) ==
    flight[w].stage = "Responded" <=>
        (flight[w].resp # << >> /\ flight[w].resp[1].server # << >>)

\* The handler of worker w's flight has a next step to take, and the step
\* takes the flight to a later stage or, in the list handler between the
\* total and the items, leaves it Dispatched.
CanAdvance(w) ==
    LET f == flight[w]
    IN  CASE f.stage = "Unauthenticated" ->
               StageRank(authenticate(f).stage) > StageRank(f.stage)
          [] f.stage = "Authenticated" ->
               StageRank(validate(f).stage) > StageRank(f.stage)
          [] f.stage = "Validated" ->
               \E slot \in Slots(f.req, db) :
                   StageRank(dispatch(f, db, slot).flight.stage)
                       > StageRank(f.stage)
          [] f.stage = "Dispatched" ->
               f.resp = << >> => f.route = "view_torrent_list"
          [] OTHER -> TRUE

(***************************************************************************)
(* C17: a request in hand goes through the stages Unauthenticated,         *)
(* Authenticated, Validated, Dispatched, Responded one after the other     *)
(* and never back; it can always take its next step until it is            *)
(* Responded, its response leaves exactly when it becomes Responded and    *)
(* does not change after; and a request whose next check fails goes        *)
(* directly to Responded with an error envelope, having made no call of    *)
(* the tracker and making none after.                                      *)
(***************************************************************************)
C17_StagesInOrder ==
    /\ [](\A w \in Workers :
             /\ RespondedOnce(w)
             /\ CanAdvance(w))
    /\ [][\A w \in Workers : StageStep(w)]_vars

C17_Witness ==
    \E w \in Workers :
        /\ flight[w].stage = "Responded"
        /\ flight[w].route = "torrent_action"
        /\ flight[w].req.token = <<"h311o">>
        /\ flight[w].req.action = << >>
        /\ IsError(flight[w].resp[1], "action_required")
        /\ flight[w].calls = << >>
        /\ \E v \in Workers :
               /\ flight[v].stage = "Responded"
               /\ flight[v].route = "torrent_action"
               /\ flight[v].req.action = <<"add">>
               /\ flight[v].resp[1].status = 200

(***************************************************************************)
(* C19: in every sequence and interleaving of requests the user of a       *)
(* request in hand is decided by its own token alone (naim for h311o,      *)
(* none otherwise), a request without a valid token is answered            *)
(* access_denied without a call of the tracker whatever the other workers  *)
(* and the earlier requests did, and every worker's access-token table     *)
(* stays as UdptState::new built it.                                       *)
(***************************************************************************)
C19_StatelessAuthentication ==
    \A w \in Workers :
        /\ DOMAIN flight[w].state.access_tokens = {"h311o"}
        /\ flight[w].state.access_tokens["h311o"] = "naim"
        /\ flight[w].stage # "Idle" =>
               flight[w].exts =
                   <<[current_user |->
                        IF flight[w].req.token = <<"h311o">>
                        THEN <<"naim">> ELSE << >>]>>
        /\ (flight[w].stage = "Responded"
               /\ flight[w].req.token # <<"h311o">>) =>
               /\ IsError(flight[w].resp[1], "access_denied")
               /\ flight[w].calls = << >>
        /\ (flight[w].stage \in {"Authenticated", "Validated", "Dispatched"}) =>
               flight[w].req.token = <<"h311o">>

C19_Witness ==
    \E w \in Workers, v \in Workers :
        /\ flight[w].stage = "Dispatched"
        /\ flight[w].req.token = <<"h311o">>
        /\ flight[w].calls # << >>
        /\ flight[v].stage = "Responded"
        /\ flight[v].req.token = <<"naim">>
        /\ IsError(flight[v].resp[1], "access_denied")

=============================================================================
